---- MODULE Spec2Model ----
(***************************************************************************)
(* Model of albumiser.py (meitham/albumiser): the classification pass of   *)
(* main() over the files yielded by the tree walk, the sqlite table        *)
(* "images" used as the ledger, and the apply pass over its READY rows.    *)
(*                                                                         *)
(* Strings are real strings: a source path is the string os.path.join      *)
(* builds, a destination is the sequence of its path components, each the  *)
(* string the code formats.  None is the string "None" (no column of the   *)
(* table ever holds that string otherwise) and <<>> for a destination.     *)
(***************************************************************************)
EXTENDS Integers, Sequences, FiniteSets, TLC

\* ------------------------------------------------------------------------
\* Bounds of the model

\* longest enumeration the tree walk yields in one run
MaxFiles == 3

\* ------------------------------------------------------------------------
\* Values

None == "None"
NoDest == <<>>

\* datetime values are <<year, month, day, hour, minute, second>>
Epoch == <<1970, 1, 1, 0, 0, 0>>
T1 == <<2012, 4, 9, 15, 15, 18>>
T2 == <<2020, 1, 2, 3, 4, 5>>

\* a tag that is absent, a tag whose value pyexiv2 converted to a datetime,
\* and a tag whose value is not a datetime (left as a string by pyexiv2)
Absent == [kind |-> "absent", t |-> <<>>]
DT(t) == [kind |-> "datetime", t |-> t]
Malformed == [kind |-> "str", t |-> <<>>]

\* a local variable that no statement has assigned yet
Unbound == [kind |-> "unbound", t |-> <<>>]

\* ------------------------------------------------------------------------
\* The source tree: the files the walk can yield.  bytes is the file's
\* content, preview the data of its largest embedded preview ("" when it has
\* none), meta whether metadata.read() succeeds, thumb whether reading
\* previews/buffer succeeds, readable whether open(path).read() succeeds.

F(dir, stem, ext, bytes, preview, meta, thumb, readable, software, dt, dto, dtd) ==
    [dir |-> dir, stem |-> stem, ext |-> ext, bytes |-> bytes,
     preview |-> preview, meta |-> meta, thumb |-> thumb,
     readable |-> readable, software |-> software,
     dt |-> dt, dto |-> dto, dtd |-> dtd]

Files ==
    << F("src/d1", "a", ".jpg", "B1", "P1", "ok", "ok", TRUE, None, DT(T1), DT(T2), Absent),
       F("src/d2", "b", ".jpg", "B1", "P1", "ok", "ok", TRUE, None, DT(T1), DT(T2), Absent),
       F("src/d1", "c", ".JPG", "B2", "", "ok", "ok", TRUE, "Picasa 3.9", DT(T1), Absent, DT(T2)),
       F("src/d2", "d", ".png", "B3", "", "ok", "ok", TRUE, "f-spot version 0.8.2", DT(T2), DT(T2), DT(T1)),
       F("src/d1", "e", ".jpg", "B4", "", "ok", "ok", TRUE, None, Absent, Absent, Absent),
       F("src/d2", "f", ".png", "B5", "", "ok", "raises", TRUE, None, Malformed, Absent, Absent),
       F("src/d1", "g", ".jpg", "B6", "P6", "ok", "ok", TRUE, None, Absent, DT(Epoch), Absent),
       F("src/d1", "h", ".jpeg", "B7", "P7", "ok", "ok", TRUE, None, DT(T2), Absent, Absent),
       F("src/d1", "n", ".txt", "B8", "", "ioerror", "raises", TRUE, None, Absent, Absent, Absent),
       F("src/d2", "x", ".png", "B9", "", "ioerror", "raises", TRUE, None, Absent, Absent, Absent),
       F("src/d1", "y", ".png", "B9", "", "ioerror", "raises", TRUE, None, Absent, Absent, Absent),
       F("src/d2", "u", ".jpg", "B10", "", "ok", "raises", FALSE, None, Absent, Absent, Absent),
       F("pics", "p", ".jpg", "B11", "P11", "ok", "ok", TRUE, None, DT(T1), Absent, Absent),
       F("pics", "l2", ".jpg", "B11", "P11", "ok", "ok", TRUE, None, DT(T1), Absent, Absent),
       F("pics", "l1", ".jpg", "B11", "P11", "ok", "ok", TRUE, None, DT(T1), Absent, Absent),
       F("pics", "q", ".png", "B12", "", "ok", "ok", TRUE, None, DT(T2), Absent, Absent) >>

FileIds == 1 .. Len(Files)

\* the files of source tree "src", which holds no symbolic link, and those
\* of source tree "pics", where l2.jpg and l1.jpg are symbolic links
SrcTree == 1 .. 12
PicsTree == 13 .. 16

\* os.path.join(dirpath, filename)
PathOf(i) == Files[i].dir \o "/" \o Files[i].stem \o Files[i].ext

FileOfPath(path) == CHOOSE i \in FileIds : PathOf(i) = path

\* os.path.islink and os.readlink: pics/l1.jpg -> pics/l2.jpg -> pics/p.jpg.
\* What is read through a link is the content of the file it leads to, so
\* the three entries of Files carry the same bytes and tags.
IsLink(path) == path \in {"pics/l1.jpg", "pics/l2.jpg"}

ReadLink(path) ==
    CASE path = "pics/l1.jpg" -> "pics/l2.jpg"
      [] path = "pics/l2.jpg" -> "pics/p.jpg"

\* open(path) succeeds: the directory entry is there and, when it is a
\* symbolic link, so is what it leads to
RECURSIVE CanOpen(_, _)
CanOpen(i, present) ==
    /\ i \in present
    /\ IsLink(PathOf(i)) => CanOpen(FileOfPath(ReadLink(PathOf(i))), present)

\* ------------------------------------------------------------------------
\* Pure helpers of albumiser.py

\* str.lower() on the extensions of the source tree
Lower(s) ==
    CASE s = ".JPG" -> ".jpg"
      [] s = ".JPEG" -> ".jpeg"
      [] s = ".PNG" -> ".png"
      [] s = ".TXT" -> ".txt"
      [] OTHER -> s

IMAGE_EXT == {".jpg", "jpeg", ".png"}

isPhoto(i) == Lower(Files[i].ext) \in IMAGE_EXT

\* sha256 is modelled as an injective tagging of its input
sha256HexDigest(indata) == "sha256(" \o indata \o ")"

\* '%02d' % n and '%04d' % n
Pad2(n) == IF n < 10 THEN "0" \o ToString(n) ELSE ToString(n)
Pad4(n) ==
    IF n < 10 THEN "000" \o ToString(n)
    ELSE IF n < 100 THEN "00" \o ToString(n)
    ELSE IF n < 1000 THEN "0" \o ToString(n)
    ELSE ToString(n)

\* str(imd) for a datetime without microseconds
StrDatetime(t) ==
    Pad4(t[1]) \o "-" \o Pad2(t[2]) \o "-" \o Pad2(t[3]) \o " "
      \o Pad2(t[4]) \o ":" \o Pad2(t[5]) \o ":" \o Pad2(t[6])

\* imd.strftime('%Y_%m_%d-%H_%M_%S')
Strftime(t) ==
    Pad4(t[1]) \o "_" \o Pad2(t[2]) \o "_" \o Pad2(t[3]) \o "-"
      \o Pad2(t[4]) \o "_" \o Pad2(t[5]) \o "_" \o Pad2(t[6])

Target == "target"

\* os.path.join(ns.target, yyyy, '%04d-%02d', '%04d-%02d-%02d')
DstDir(t) ==
    << Target, ToString(t[1]),
       Pad4(t[1]) \o "-" \o Pad2(t[2]),
       Pad4(t[1]) \o "-" \o Pad2(t[2]) \o "-" \o Pad2(t[3]) >>

\* os.path.dirname of a destination
Dirname(dst) == SubSeq(dst, 1, Len(dst) - 1)

\* ------------------------------------------------------------------------
\* The ledger: table images(hash unique, path unique, created, destination,
\* status, error), kept in insertion (rowid) order.

\* the last two values bound to the wrong columns
Row_StatusErrorSwapped(hash, path, created, destination, status, error) ==
    [hash |-> hash, path |-> path, created |-> created,
     destination |-> destination, status |-> error, error |-> status]

Row(hash, path, created, destination, status, error) ==
    [hash |-> hash, path |-> path, created |-> created,
     destination |-> destination, status |-> status, error |-> error]

\* "insert or replace": the rows in conflict are deleted and the row stored
InsertOrIgnore_Replace(led, row) ==
    Append(SelectSeq(led, LAMBDA r : r.hash # row.hash /\ r.path # row.path), row)

\* "insert or ignore into images values(...)": the row is dropped when it
\* violates the unique constraint of hash or of path
InsertOrIgnore(led, row) ==
    IF \E k \in 1 .. Len(led) : led[k].hash = row.hash \/ led[k].path = row.path
    THEN led
    ELSE Append(led, row)

\* "select * from images where hash=?"
SelectHash(led, digest) == {k \in 1 .. Len(led) : led[k].hash = digest}

\* "select * from images where created=?"
SelectCreated(led, created) == {k \in 1 .. Len(led) : led[k].created = created}

\* "select * from images where status='READY'"
SelectReady(led) == SelectSeq(led, LAMBDA r : r.status = "READY")

\* ------------------------------------------------------------------------
\* One iteration of the classification loop, lines 216-331

\* the fallback hashing the path, as line 237 does
DigestData_PathFallback(i) ==
    IF Files[i].thumb = "ok"
    THEN IF Files[i].preview # "" THEN Files[i].preview ELSE Files[i].bytes
    ELSE IF Files[i].readable THEN PathOf(i) ELSE ""

\* data hashed at lines 244-259; "" when open(path) fails in the handler and
\* the finally clause finds data unbound
DigestData(i) ==
    IF Files[i].thumb = "ok"
    THEN IF Files[i].preview # "" THEN Files[i].preview ELSE Files[i].bytes
    ELSE IF Files[i].readable THEN Files[i].bytes ELSE ""

\* line 279: software.startswith('f-spot'), on the software tags of the
\* source tree ("F-Spot" and "Picasa 3.9" do not start with 'f-spot')
StartsWithFSpot(software) ==
    CASE software = "f-spot" -> TRUE
      [] software = "f-spot version 0.8.2" -> TRUE
      [] OTHER -> FALSE

\* lines 276-291: the value the date tags resolve to
ResolveTag(i) ==
    LET f == Files[i]
        fspot == IF f.software # None /\ StartsWithFSpot(f.software) /\ f.dtd.kind # "absent"
                 THEN f.dtd ELSE Absent
    IN  IF fspot.kind # "absent" THEN fspot
        ELSE IF f.dt.kind # "absent" THEN f.dt
        ELSE f.dto

\* a photo dated at the epoch taken for a file without a date
IsUndated_EpochIsUndated(i) ==
    ResolveTag(i).kind # "datetime" \/ ResolveTag(i).t = Epoch

\* line 293: imd is None or not isinstance(imd, datetime)
IsUndated(i) == ResolveTag(i).kind # "datetime"

\* the query made with the file-name format of the timestamp
ImagesInSecond_WrongFormat(led, t) == Cardinality(SelectCreated(led, Strftime(t)))

\* lines 311-312: len(c.fetchall()) of the rows created in the same second
ImagesInSecond(led, t) == Cardinality(SelectCreated(led, StrDatetime(t)))

\* the ordinal counted from the file itself instead of from the earlier rows
Destination_OrdinalFromOne(led, imd, undated, counter, ext) ==
    IF undated
    THEN Append(DstDir(imd), Strftime(imd) \o "-" \o ToString(counter) \o ext)
    ELSE LET images_in_second == ImagesInSecond(led, imd)
         IN  IF images_in_second > 0
             THEN Append(DstDir(imd),
                         Strftime(imd) \o "." \o ToString(images_in_second + 1) \o ext)
             ELSE Append(DstDir(imd), Strftime(imd) \o ext)

\* lines 307-320: the destination of a file resolved to imd
Destination(led, imd, undated, counter, ext) ==
    IF undated
    THEN Append(DstDir(imd), Strftime(imd) \o "-" \o ToString(counter) \o ext)
    ELSE LET images_in_second == ImagesInSecond(led, imd)
         IN  IF images_in_second > 0
             THEN Append(DstDir(imd),
                         Strftime(imd) \o "." \o ToString(images_in_second) \o ext)
             ELSE Append(DstDir(imd), Strftime(imd) \o ext)

\* the rows that hold a path: what the unique constraint of the path column
\* looks up
SelectPath(led, path) == {k \in 1 .. Len(led) : led[k].path = path}

\* the lookup made on the path column instead of the hash column
AlreadyProcessed_ByPath(led, digest) == SelectPath(led, digest) # {}

\* lines 262-263: the fingerprint has been seen before
AlreadyProcessed(led, digest) == SelectHash(led, digest) # {}

\* the counter started afresh for every file
NextCounter_Reset(counter, undated) == IF undated THEN 1 ELSE counter

\* lines 293-296: an undated file takes the next value of the counter
NextCounter(counter, undated) == IF undated THEN counter + 1 ELSE counter

\* the removal done outside the test of the option
RemovedOnDuplicate_Always(i, delete_duplicates) == {i}

\* lines 265-269: the source of a duplicate is removed when asked for
RemovedOnDuplicate(i, delete_duplicates) == IF delete_duplicates THEN {i} ELSE {}

\* the locals and effects of one iteration: raised is the exception the body
\* raised, escaped the one that reached the handler of line 328
Outcome(led, counter, removed, raised, escaped, verdict, digest, undated, dstdir) ==
    [ledger |-> led, counter |-> counter, removed |-> removed,
     raised |-> raised, escaped |-> escaped, verdict |-> verdict, digest |-> digest,
     undated |-> undated, dstdir |-> dstdir]

ClassifyFile(i, led, counter, present, delete_duplicates) ==
    LET path == PathOf(i)
        ext == Lower(Files[i].ext)
    IN
    IF ~isPhoto(i)
    THEN \* lines 224-229
         Outcome(InsertOrIgnore(led, Row(path, path, None, NoDest, "IGNORE", "non image file")),
                 counter, {}, None, None, "IGNORE", None, FALSE, NoDest)
    ELSE IF ~CanOpen(i, present) \/ Files[i].meta = "ioerror"
    THEN \* lines 231-241
         LET digest == sha256HexDigest(path)
         IN  Outcome(InsertOrIgnore(led, Row(digest, path, None, NoDest, "FAILED", "IOError")),
                     counter, {}, "IOError", None, "FAILED", digest, FALSE, NoDest)
    ELSE IF DigestData(i) = ""
    THEN \* lines 252-259 raise; caught at line 328
         Outcome(led, counter, {}, "UnboundLocalError", "UnboundLocalError", "ERROR", None, FALSE, NoDest)
    ELSE
    LET digest == sha256HexDigest(DigestData(i))
    IN
    IF AlreadyProcessed(led, digest)
    THEN \* lines 261-270
         Outcome(IF delete_duplicates
                 THEN InsertOrIgnore(led, Row(digest, path, None, NoDest, "DUPLICATE", None))
                 ELSE led,
                 counter, RemovedOnDuplicate(i, delete_duplicates),
                 None, None, "DUPLICATE", digest, FALSE, NoDest)
    ELSE \* lines 276-327
    LET undated == IsUndated(i)
        undated_counter == NextCounter(counter, undated)
        imd == IF undated THEN Epoch ELSE ResolveTag(i).t
        dstdir == Destination(led, imd, undated, undated_counter, ext)
    IN  Outcome(InsertOrIgnore(led, Row(digest, path, StrDatetime(imd), dstdir, "READY", None)),
                undated_counter, {}, None, None, "READY", digest, undated, dstdir)

\* line 328: "except Exception" catches every exception the body raises
PyExceptions == {"IOError", "UnicodeDecodeError", "KeyError", "OSError",
                 "UnboundLocalError", "ValueError"}

\* the handler narrowed to the exceptions of line 234
OuterCatches_OnlyReadErrors(e) == e \in {"IOError", "UnicodeDecodeError"}

OuterCatches(e) == e \in PyExceptions

\* ------------------------------------------------------------------------
\* State

VARIABLES
    ns,               \* the parsed options (handle_options)
    todo,             \* what the tree walk has still to yield, in order
    walked,           \* what the loop has processed, in order
    ledger,           \* the rows of table images, in rowid order
    undated_counter,  \* line 211
    present,          \* the source files that exist on disk
    loc,              \* the locals of the last loop iteration
    pc,               \* "classify", "apply", "done", or "aborted"
    cursor,           \* the READY rows the apply loop has still to visit
    dirs,             \* destination directories created by os.makedirs
    fsops,            \* the move/copy/symlink calls that have succeeded
    inserts,          \* insert statements still to execute (the statement alone)
    tw,               \* the TreeWalker object (the walk alone)
    stack,            \* the frames of the nested walk() generators
    yielded,          \* the (dirpath, filename) pairs walk() has yielded
    imd               \* sqlalbumiser.py: the local imd, kept across iterations

vars == <<ns, todo, walked, ledger, undated_counter, present, loc, pc,
          cursor, dirs, fsops, inserts, tw, stack, yielded, imd>>

\* what main() of albumiser.py leaves alone in this model
apart == <<inserts, tw, stack, yielded, imd>>

\* a depth is <<d>>, and <<>> when it is None
NoDepth == <<>>
Depth(d) == <<d>>

\* no TreeWalker under observation
NoWalker == [top |-> None, max_depth |-> NoDepth, recursive |-> FALSE, follow_links |-> FALSE]

Apart ==
    /\ inserts = <<>>
    /\ tw = NoWalker
    /\ stack = <<>>
    /\ yielded = <<>>
    /\ imd = Unbound

\* handle_options, lines 95-126: --dry-link forces move off
Options ==
    {[delete_duplicates |-> d, link |-> l, move |-> (m /\ ~l)] :
        d \in BOOLEAN, l \in BOOLEAN, m \in BOOLEAN}

\* the enumerations of at most MaxFiles files: the walk is the input of the
\* pass, taken in any order, and a path may be yielded again
EnumerationsOf(tree) == UNION {[1 .. n -> tree] : n \in 0 .. MaxFiles}

Enumerations == EnumerationsOf(SrcTree)

NoLocals ==
    [file |-> 0, verdict |-> "none", digest |-> None, seen |-> FALSE,
     undated |-> FALSE, dstdir |-> NoDest, raised |-> None]

Init ==
    /\ ns \in Options
    /\ todo \in Enumerations
    /\ walked = <<>>
    /\ ledger = <<>>
    /\ undated_counter = 0
    /\ present = FileIds
    /\ loc = NoLocals
    /\ pc = "classify"
    /\ cursor = <<>>
    /\ dirs = {}
    /\ fsops = <<>>
    /\ Apart

\* ------------------------------------------------------------------------
\* Classification pass, lines 215-332

\* one iteration of "for dirpath, filename in tree_walker.walk()"
Classify ==
    /\ pc = "classify"
    /\ todo # <<>>
    /\ LET i == Head(todo)
           o == ClassifyFile(i, ledger, undated_counter, present, ns.delete_duplicates)
       IN  /\ ledger' = o.ledger
           /\ undated_counter' = o.counter
           /\ present' = present \ o.removed
           /\ loc' = [file |-> i, verdict |-> o.verdict, digest |-> o.digest,
                      seen |-> (o.digest # None /\ SelectHash(ledger, o.digest) # {}),
                      undated |-> o.undated,
                      dstdir |-> o.dstdir, raised |-> o.raised]
           /\ pc' = IF o.escaped = None \/ OuterCatches(o.escaped)
                    THEN "classify" ELSE "aborted"
           /\ todo' = Tail(todo)
           /\ walked' = Append(walked, i)
    /\ UNCHANGED <<ns, cursor, dirs, fsops>>
    /\ UNCHANGED apart

\* the loop left while the walk has one more file to yield
WalkExhausted_StopsEarly == Len(todo) <= 1

\* the generator is exhausted
WalkExhausted == todo = <<>>

\* lines 332-336: the loop ends and the READY rows are selected
EndWalk ==
    /\ pc = "classify"
    /\ WalkExhausted
    /\ pc' = "apply"
    /\ cursor' = SelectReady(ledger)
    /\ UNCHANGED <<ns, todo, walked, ledger, undated_counter, present, loc,
                   dirs, fsops>>
    /\ UNCHANGED apart

\* ------------------------------------------------------------------------
\* Apply pass, lines 337-350

\* the operation the options select for the whole run
ApplyOp == IF ns.move THEN "move" ELSE IF ns.link THEN "symlink" ELSE "copy2"

\* os.makedirs(target_dir): the directory and its missing parents
MakeDirs(target_dir) == {SubSeq(target_dir, 1, k) : k \in 1 .. Len(target_dir)}

\* shutil.move and shutil.copy2 raise when the source is gone; os.symlink
\* does not look at its source
SourceMissing(op, source) == op # "symlink" /\ ~CanOpen(FileOfPath(source), present)

\* lines 346-347: if os.path.islink(source): source = os.readlink(source)
LinkSource(source) == IF IsLink(source) THEN ReadLink(source) ELSE source

\* the next row: its file operation succeeds
ApplyRow ==
    /\ pc = "apply"
    /\ cursor # <<>>
    /\ LET row == Head(cursor)
           source == row.path
           target == row.destination
       IN  /\ ~SourceMissing(ApplyOp, source)
           /\ dirs' = dirs \cup MakeDirs(Dirname(target))
           /\ fsops' = Append(fsops,
                  [op |-> ApplyOp,
                   source |-> IF ApplyOp = "symlink" THEN LinkSource(source) ELSE source,
                   target |-> target])
           /\ present' = IF ApplyOp = "move"
                         THEN present \ {FileOfPath(source)} ELSE present
    /\ cursor' = Tail(cursor)
    /\ UNCHANGED <<ns, todo, walked, ledger, undated_counter, loc, pc>>
    /\ UNCHANGED apart

\* the next row: its file operation raises (source gone, destination
\* unwritable or already there); nothing catches it and main() ends
ApplyRowFails ==
    /\ pc = "apply"
    /\ cursor # <<>>
    /\ dirs' = dirs \cup MakeDirs(Dirname(Head(cursor).destination))
    /\ cursor' = Tail(cursor)
    /\ pc' = "aborted"
    /\ UNCHANGED <<ns, todo, walked, ledger, undated_counter, present, loc,
                   fsops>>
    /\ UNCHANGED apart

\* the cursor is exhausted and main() returns
ApplyDone ==
    /\ pc = "apply"
    /\ cursor = <<>>
    /\ pc' = "done"
    /\ UNCHANGED <<ns, todo, walked, ledger, undated_counter, present, loc,
                   cursor, dirs, fsops>>
    /\ UNCHANGED apart

Next == Classify \/ EndWalk \/ ApplyRow \/ ApplyRowFails \/ ApplyDone

Spec == Init /\ [][Next]_vars

\* the same run on source tree "pics", whose files include symbolic links
LinksInit ==
    /\ ns \in Options
    /\ todo \in EnumerationsOf(PicsTree)
    /\ walked = <<>>
    /\ ledger = <<>>
    /\ undated_counter = 0
    /\ present = FileIds
    /\ loc = NoLocals
    /\ pc = "classify"
    /\ cursor = <<>>
    /\ dirs = {}
    /\ fsops = <<>>
    /\ Apart

SpecLinks == LinksInit /\ [][Next]_vars

\* ------------------------------------------------------------------------
\* The insert statement of lines 324-326 on the table of lines 196-204,
\* taken alone: READY rows offered to the table in any order

\* most statements executed in one run of this part
MaxInserts == 3

\* none of the options matters to the statement or to the walk
NoOptions == [delete_duplicates |-> FALSE, link |-> FALSE, move |-> FALSE]

ReadyAttempts ==
    {Row(h, p, StrDatetime(T1), <<Target, d>>, "READY", None) :
        h \in {"h1", "h2"}, p \in {"p1", "p2"}, d \in {"dA", "dB"}}

\* "insert or ignore": a row that breaks a constraint is skipped and
\* sqlite3 raises no IntegrityError
IntegrityError(led, row) == FALSE

InsertInit ==
    /\ ns = NoOptions
    /\ todo = <<>>
    /\ walked = <<>>
    /\ ledger = <<>>
    /\ undated_counter = 0
    /\ present = FileIds
    /\ loc = NoLocals
    /\ pc = "classify"
    /\ cursor = <<>>
    /\ dirs = {}
    /\ fsops = <<>>
    /\ inserts \in UNION {[1 .. n -> ReadyAttempts] : n \in 0 .. MaxInserts}
    /\ tw = NoWalker
    /\ stack = <<>>
    /\ yielded = <<>>
    /\ imd = Unbound

\* c.execute("insert or ignore into images values(?,?,?,?,?,?)", ...)
Insert ==
    /\ inserts # <<>>
    /\ ledger' = InsertOrIgnore(ledger, Head(inserts))
    /\ inserts' = Tail(inserts)
    /\ UNCHANGED <<ns, todo, walked, undated_counter, present, loc, pc,
                   cursor, dirs, fsops, tw, stack, yielded, imd>>

InsertNext == Insert

SpecInsert == InsertInit /\ [][InsertNext]_vars

\* ------------------------------------------------------------------------
\* The tree walk, lines 129-169 and 214, taken alone

\* largest value of --depth tried
MaxDepth == 4

\* the directory tree under "top" in os.listdir order: kind is "file" for
\* what os.path.isfile accepts, "dir" for a directory, "dirlink" for a
\* symbolic link to a directory, "other" for anything else
E(dir, name, kind) == [dir |-> dir, name |-> name, kind |-> kind]

Top == "top"

Entries ==
    << E("top", "a.jpg", "file"),
       E("top", "sub", "dir"),
       E("top", "fifo", "other"),
       E("top", "lnk", "dirlink"),
       E("top", "z.png", "file"),
       E("top/sub", "deep", "dir"),
       E("top/sub", "b.jpg", "file"),
       E("top/sub/deep", "c.jpg", "file"),
       E("top/sub/deep", "deeper", "dir"),
       E("top/sub/deep/deeper", "d.jpg", "file"),
       E("top/sub/deep/deeper", "deepest", "dir"),
       E("top/sub/deep/deeper/deepest", "g.jpg", "file"),
       E("top/lnk", "e.jpg", "file"),
       E("top/lnk", "in", "dir"),
       E("top/lnk/in", "f.jpg", "file") >>

\* os.path.join(top, f)
Join(top, f) == top \o "/" \o f

\* os.listdir(top)
ListDir(top) == SelectSeq(Entries, LAMBDA e : e.dir = top)

\* handle_options, lines 117-124: ns.depth is None or int(ns.depth); the
\* local max_depth that line 124 changes is never read again
WalkOptions ==
    {[depth |-> d, follow_links |-> f] :
        d \in {NoDepth} \cup {Depth(n) : n \in -1 .. MaxDepth}, f \in BOOLEAN}

\* kwargs.get(key, default)
KwargsGet(kwargs, key, default) ==
    IF key \in DOMAIN kwargs THEN kwargs[key] ELSE default

\* TreeWalker.__init__, lines 133-144
TreeWalker(top, max_depth, kwargs) ==
    [top |-> top, max_depth |-> max_depth,
     recursive |-> (max_depth = NoDepth \/ max_depth[1] > 0),
     follow_links |-> KwargsGet(kwargs, "follow_links", FALSE)]

\* lines 149-154 with the test "depth >= self._max_depth"
Frames_DepthReached(w, top, depth) ==
    IF w.max_depth # NoDepth /\ depth >= w.max_depth[1]
    THEN <<>>
    ELSE <<[top |-> top, depth |-> depth, rest |-> ListDir(top)]>>

\* lines 149-154: the generator walk(top, depth) returns at once beyond
\* max_depth, and otherwise starts on os.listdir(top)
Frames(w, top, depth) ==
    IF w.max_depth # NoDepth /\ depth > w.max_depth[1]
    THEN <<>>
    ELSE <<[top |-> top, depth |-> depth, rest |-> ListDir(top)]>>

\* line 214: TreeWalker(ns.source, ns.depth, logger=logger,
\*                      follow_symlinks=ns.follow_links); line 215 calls walk()
WalkInit ==
    /\ ns \in WalkOptions
    /\ tw = TreeWalker(Top, ns.depth, [logger |-> TRUE, follow_symlinks |-> ns.follow_links])
    /\ stack = Frames(tw, tw.top, 0)
    /\ yielded = <<>>
    /\ todo = <<>>
    /\ walked = <<>>
    /\ ledger = <<>>
    /\ undated_counter = 0
    /\ present = FileIds
    /\ loc = NoLocals
    /\ pc = "classify"
    /\ cursor = <<>>
    /\ dirs = {}
    /\ fsops = <<>>
    /\ inserts = <<>>
    /\ imd = Unbound

\* the innermost generator and the entry its for loop takes next
Frame == stack[Len(stack)]
Entry == Head(Frame.rest)

\* the stack once the innermost loop has taken its entry
Advanced == [stack EXCEPT ![Len(stack)].rest = Tail(Frame.rest)]

\* lines 158-161: whether walk() recurses into the directory entry e
Descends(w, e) ==
    /\ w.recursive
    /\ (e.kind = "dirlink" /\ w.follow_links) \/ e.kind # "dirlink"

notwalk == <<ns, todo, walked, ledger, undated_counter, present, loc, pc,
             cursor, dirs, fsops, inserts, imd, tw>>

\* lines 157-163: a directory that is entered
WalkDescend ==
    /\ stack # <<>> /\ Frame.rest # <<>>
    /\ Entry.kind \in {"dir", "dirlink"}
    /\ Descends(tw, Entry)
    /\ stack' = Advanced \o Frames(tw, Join(Frame.top, Entry.name), Frame.depth + 1)
    /\ UNCHANGED <<yielded, notwalk>>

\* lines 157-161: a directory that is passed over
WalkPassDir ==
    /\ stack # <<>> /\ Frame.rest # <<>>
    /\ Entry.kind \in {"dir", "dirlink"}
    /\ ~Descends(tw, Entry)
    /\ stack' = Advanced
    /\ UNCHANGED <<yielded, notwalk>>

\* lines 164-165: yield top, f
WalkYield ==
    /\ stack # <<>> /\ Frame.rest # <<>>
    /\ Entry.kind = "file"
    /\ yielded' = Append(yielded, <<Frame.top, Entry.name>>)
    /\ stack' = Advanced
    /\ UNCHANGED notwalk

\* lines 166-169: neither a directory nor a file
WalkSkip ==
    /\ stack # <<>> /\ Frame.rest # <<>>
    /\ Entry.kind = "other"
    /\ stack' = Advanced
    /\ UNCHANGED <<yielded, notwalk>>

\* the innermost for loop is over and its generator returns
WalkReturn ==
    /\ stack # <<>> /\ Frame.rest = <<>>
    /\ stack' = SubSeq(stack, 1, Len(stack) - 1)
    /\ UNCHANGED <<yielded, notwalk>>

WalkNext == WalkDescend \/ WalkPassDir \/ WalkYield \/ WalkSkip \/ WalkReturn

\* the for loop of line 215 drives the generator until it is exhausted
SpecWalk == WalkInit /\ [][WalkNext]_vars /\ WF_vars(WalkNext)

\* ------------------------------------------------------------------------
\* sqlalbumiser.py: the classification pass of its main(), lines 195-299,
\* over the files of tree "src".  Its apply pass (lines 300-313) is the one
\* of albumiser.py and is not repeated here.

\* a row of table IMAGES (lines 201-207): no "created" column
SqlRow(hash, path, destination, status, error) ==
    [hash |-> hash, path |-> path, destination |-> destination,
     status |-> status, error |-> error]

\* lines 244-251: metadata.previous does not exist (the attribute is
\* "previews"), so the bare except always takes over and the digest is
\* that of open(path).read(); "" when that read raises
SqlDigestData(i) == IF Files[i].readable THEN Files[i].bytes ELSE ""

\* lines 263-271: imd after the two lookups; it keeps the value it had
\* when both raise KeyError
SqlResolveTag(i, previous) ==
    IF Files[i].dt.kind # "absent" THEN Files[i].dt
    ELSE IF Files[i].dto.kind # "absent" THEN Files[i].dto
    ELSE previous

\* lines 280-286: no ordinal for a second file of the same second
SqlDestination(t, undated, counter, ext) ==
    IF undated
    THEN Append(DstDir(t), Strftime(t) \o "-" \o ToString(counter) \o ext)
    ELSE Append(DstDir(t), Strftime(t) \o ext)

SqlOutcome(led, counter, removed, raised, verdict, digest, undated, dstdir, local_imd) ==
    [ledger |-> led, counter |-> counter, removed |-> removed, raised |-> raised,
     verdict |-> verdict, digest |-> digest, undated |-> undated,
     dstdir |-> dstdir, imd |-> local_imd]

\* the body of the loop, lines 219-294
SqlClassifyFile(i, led, counter, previous, on_disk, delete_duplicates) ==
    LET path == PathOf(i)
        ext == Lower(Files[i].ext)
    IN
    IF ~isPhoto(i)
    THEN \* lines 225-230
         SqlOutcome(InsertOrIgnore(led, SqlRow(path, path, NoDest, "IGNORE", "non image file")),
                    counter, {}, None, "IGNORE", None, FALSE, NoDest, previous)
    ELSE IF ~CanOpen(i, on_disk) \/ Files[i].meta = "ioerror"
    THEN \* lines 232-241
         LET digest == sha256HexDigest(path)
         IN  SqlOutcome(InsertOrIgnore(led, SqlRow(digest, path, NoDest, "FAILED", "IOError")),
                        counter, {}, "IOError", "FAILED", digest, FALSE, NoDest, previous)
    ELSE IF SqlDigestData(i) = ""
    THEN \* line 251 raises; caught at line 291
         SqlOutcome(led, counter, {}, "IOError", "ERROR", None, FALSE, NoDest, previous)
    ELSE
    LET digest == sha256HexDigest(SqlDigestData(i))
    IN
    IF AlreadyProcessed(led, digest)
    THEN \* lines 253-261
         SqlOutcome(IF delete_duplicates
                    THEN InsertOrIgnore(led, SqlRow(digest, path, NoDest, "DUPLICATE", None))
                    ELSE led,
                    counter, RemovedOnDuplicate(i, delete_duplicates),
                    None, "DUPLICATE", digest, FALSE, NoDest, previous)
    ELSE
    LET tag == SqlResolveTag(i, previous)
    IN
    IF tag.kind = "unbound"
    THEN \* line 272 reads a local never assigned; caught at line 291
         SqlOutcome(led, counter, {}, "UnboundLocalError", "ERROR", digest, FALSE, NoDest, previous)
    ELSE \* lines 272-289
    LET undated == tag.kind # "datetime"
        count == NextCounter(counter, undated)
        t == IF undated THEN Epoch ELSE tag.t
        dstdir == SqlDestination(t, undated, count, ext)
    IN  SqlOutcome(InsertOrIgnore(led, SqlRow(digest, path, dstdir, "READY", None)),
                   count, {}, None, "READY", digest, undated, dstdir, DT(t))

SqlInit ==
    /\ ns \in Options
    /\ todo \in EnumerationsOf(SrcTree)
    /\ walked = <<>>
    /\ ledger = <<>>
    /\ undated_counter = 0
    /\ present = FileIds
    /\ loc = NoLocals
    /\ pc = "classify"
    /\ cursor = <<>>
    /\ dirs = {}
    /\ fsops = <<>>
    /\ inserts = <<>>
    /\ tw = NoWalker
    /\ stack = <<>>
    /\ yielded = <<>>
    /\ imd = Unbound

\* one iteration of the loop of line 218; every exception of the body is
\* caught at line 291
SqlClassify ==
    /\ pc = "classify"
    /\ todo # <<>>
    /\ LET i == Head(todo)
           o == SqlClassifyFile(i, ledger, undated_counter, imd, present,
                                ns.delete_duplicates)
       IN  /\ ledger' = o.ledger
           /\ undated_counter' = o.counter
           /\ present' = present \ o.removed
           /\ imd' = o.imd
           /\ loc' = [file |-> i, verdict |-> o.verdict, digest |-> o.digest,
                      seen |-> (o.digest # None /\ SelectHash(ledger, o.digest) # {}),
                      undated |-> o.undated,
                      dstdir |-> o.dstdir, raised |-> o.raised]
           /\ todo' = Tail(todo)
           /\ walked' = Append(walked, i)
    /\ UNCHANGED <<ns, pc, cursor, dirs, fsops, inserts, tw, stack, yielded>>

\* lines 295-299: the loop ends and the READY rows are selected
SqlEndWalk ==
    /\ pc = "classify"
    /\ todo = <<>>
    /\ pc' = "apply"
    /\ cursor' = SelectReady(ledger)
    /\ UNCHANGED <<ns, todo, walked, ledger, undated_counter, present, loc,
                   dirs, fsops, inserts, tw, stack, yielded, imd>>

SqlNext == SqlClassify \/ SqlEndWalk

SpecSql == SqlInit /\ [][SqlNext]_vars

\* ------------------------------------------------------------------------
\* Shape of the state

TypeOK ==
    /\ ns \in Options
    /\ pc \in {"classify", "apply", "done", "aborted"}
    /\ undated_counter \in 0 .. MaxFiles
    /\ present \subseteq FileIds
    /\ Len(todo) + Len(walked) <= MaxFiles

\* ------------------------------------------------------------------------
\* Vocabulary of the properties

Rows == 1 .. Len(ledger)
ReadyRows == {k \in Rows : ledger[k].status = "READY"}
Steps == 1 .. Len(walked)
ClassificationOver == pc # "classify"

\* the last component of a destination
FileName(dst) == dst[Len(dst)]

\* the file reaches the fingerprint lookup of line 262 on an untouched tree
HasFingerprint(i) == isPhoto(i) /\ Files[i].meta = "ok" /\ DigestData(i) # ""
Fingerprint(i) == sha256HexDigest(DigestData(i))

\* ------------------------------------------------------------------------
\* C1: when two files at different paths produce the same fingerprint, the
\* ledger after the classification pass holds exactly one READY entry and
\* exactly one DUPLICATE entry for that content, with delete-duplicates on
\* or off.
C1_OneReadyOneDuplicate ==
    ClassificationOver =>
        \A a, b \in Steps :
            ( /\ PathOf(walked[a]) # PathOf(walked[b])
              /\ HasFingerprint(walked[a]) /\ HasFingerprint(walked[b])
              /\ Fingerprint(walked[a]) = Fingerprint(walked[b]) )
            => LET d == Fingerprint(walked[a])
                   paths == {PathOf(walked[a]), PathOf(walked[b])}
               IN  /\ Cardinality({k \in ReadyRows : ledger[k].hash = d}) = 1
                   /\ Cardinality({k \in Rows :
                          /\ ledger[k].status = "DUPLICATE"
                          /\ (ledger[k].hash = d \/ ledger[k].path \in paths)}) = 1

\* ------------------------------------------------------------------------
\* C2: no two READY entries share a fingerprint, and a file whose
\* fingerprint is already in the ledger when it is classified is neither
\* inserted as READY nor given a destination path.
C2_ReadyFingerprintsUnique ==
    /\ [](\A j \in ReadyRows : \A k \in Rows : j # k => ledger[j].hash # ledger[k].hash)
    /\ [](loc.seen => loc.dstdir = NoDest /\ loc.verdict # "READY")
    /\ [][(walked' # walked /\ loc'.seen) => SelectReady(ledger') = SelectReady(ledger)]_vars

\* a second path with an already seen fingerprint has just been classified
C2_Witness ==
    /\ loc.seen
    /\ loc.verdict = "DUPLICATE"
    /\ \E k \in ReadyRows :
          ledger[k].hash = loc.digest /\ ledger[k].path # PathOf(loc.file)

\* ------------------------------------------------------------------------
\* C3: no two READY entries have the same destination_path.
C3_ReadyDestinationsUnique ==
    \A j, k \in ReadyRows : j # k => ledger[j].destination # ledger[k].destination

\* three READY entries that all share captured_at: a real photo dated at the
\* epoch among undated files
C3_Witness ==
    /\ Cardinality(ReadyRows) = 3
    /\ \A k \in ReadyRows : ledger[k].created = StrDatetime(Epoch)
    /\ \E k \in ReadyRows : ~IsUndated(FileOfPath(ledger[k].path))
    /\ \E k \in ReadyRows : IsUndated(FileOfPath(ledger[k].path))

\* three READY entries of the same second, with different extensions
C3_WitnessSameSecond ==
    /\ Cardinality(ReadyRows) = 3
    /\ \A k \in ReadyRows : ledger[k].created = StrDatetime(T1)
    /\ \E j, k \in ReadyRows :
          Lower(Files[FileOfPath(ledger[j].path)].ext) # Lower(Files[FileOfPath(ledger[k].path)].ext)

\* ------------------------------------------------------------------------
\* C4: a non-duplicate file resolved to a real capture time T, classified
\* when n entries with captured_at = T are in the ledger, is named by T
\* formatted to the second, with no suffix when n = 0 and with ".n" before
\* the extension when n >= 1.
C4_SameSecondOrdinal ==
    \A j \in ReadyRows :
        LET i == FileOfPath(ledger[j].path)
            ext == Lower(Files[i].ext)
            T == ResolveTag(i).t
            n == Cardinality({k \in 1 .. (j - 1) : ledger[k].created = ledger[j].created})
        IN  ~IsUndated(i) =>
              /\ ledger[j].created = StrDatetime(T)
              /\ FileName(ledger[j].destination) =
                    IF n = 0 THEN Strftime(T) \o ext
                    ELSE Strftime(T) \o "." \o ToString(n) \o ext

\* three files of the second 2012-04-09 15:15:18, in the order a.jpg, c.JPG,
\* d.png
C4_Witness ==
    /\ Len(ledger) = 3
    /\ FileName(ledger[1].destination) = "2012_04_09-15_15_18.jpg"
    /\ FileName(ledger[2].destination) = "2012_04_09-15_15_18.1.jpg"
    /\ FileName(ledger[3].destination) = "2012_04_09-15_15_18.2.png"

\* ------------------------------------------------------------------------
\* C5: the undated counter is scoped to the run and strictly increases: an
\* undated file receives a value greater than every earlier one, whatever
\* its directory; dated, ignored, failed and duplicate files leave the
\* counter unchanged; two undated READY entries have distinct destinations.
C5_UndatedCounter ==
    /\ [][ /\ undated_counter' >= undated_counter
           /\ (walked' # walked /\ loc'.undated) => undated_counter' > undated_counter
           /\ undated_counter' # undated_counter => (walked' # walked /\ loc'.undated)
         ]_vars
    /\ []( (loc.undated /\ ledger # <<>>) =>
              FileName(ledger[Len(ledger)].destination) =
                  Strftime(Epoch) \o "-" \o ToString(undated_counter)
                      \o Lower(Files[loc.file].ext) )
    /\ [](\A j, k \in ReadyRows :
              ( /\ j # k
                /\ IsUndated(FileOfPath(ledger[j].path))
                /\ IsUndated(FileOfPath(ledger[k].path)) )
              => ledger[j].destination # ledger[k].destination)

\* an undated file of src/d1, a dated file, an undated file of src/d2
C5_Witness ==
    /\ Len(ledger) = 3
    /\ undated_counter = 2
    /\ FileName(ledger[1].destination) = "1970_01_01-00_00_00-1.jpg"
    /\ ~IsUndated(FileOfPath(ledger[2].path))
    /\ FileName(ledger[3].destination) = "1970_01_01-00_00_00-2.png"
    /\ Files[FileOfPath(ledger[1].path)].dir # Files[FileOfPath(ledger[3].path)].dir

\* ------------------------------------------------------------------------
\* C6: a file is classified IGNORED if and only if its extension, compared
\* case-insensitively, is not one of .jpg, .jpeg, .png.
C6_ExtensionAllowList ==
    loc.file # 0 =>
        (loc.verdict = "IGNORE"
            <=> Lower(Files[loc.file].ext) \notin {".jpg", ".jpeg", ".png"})

C8_TwoPhases ==
    /\ []((fsops # <<>> \/ dirs # {}) => (todo = <<>> /\ ClassificationOver))
    /\ [][ClassificationOver => (ledger' = ledger /\ walked' = walked)]_vars

\* the apply pass has run to its end over two READY entries of three files
C8_Witness ==
    /\ pc = "done"
    /\ Len(walked) = 3
    /\ Len(fsops) = 2
    /\ Cardinality(ReadyRows) = 2

\* ------------------------------------------------------------------------
\* C9: when the file operation of one READY entry fails, the operations of
\* the remaining READY entries are still attempted.
C9_ApplyIndependent ==
    pc \in {"done", "aborted"} => cursor = <<>>

\* ------------------------------------------------------------------------
\* C10: an error raised while classifying a file never ends the run: the
\* loop goes on with the next file, the run leaves the classification pass
\* only when the enumeration is consumed, and then it enters the apply pass.
C10_ErrorsDoNotAbort ==
    /\ [][ /\ (walked' # walked /\ loc'.raised # None) => pc' = "classify"
           /\ (pc = "classify" /\ pc' # "classify") => (pc' = "apply" /\ todo = <<>>)
         ]_vars
    /\ [](todo # <<>> => pc = "classify")

\* an unreadable file, then a file with unreadable metadata, then a photo
\* that reaches the apply pass
C10_Witness ==
    /\ pc = "apply"
    /\ Len(walked) = 3
    /\ ~Files[walked[1]].readable /\ isPhoto(walked[1])
    /\ Files[walked[2]].meta = "ioerror" /\ isPhoto(walked[2])
    /\ \E k \in ReadyRows : ledger[k].path = PathOf(walked[3])
    /\ cursor # <<>>

\* ------------------------------------------------------------------------
\* Vocabulary of the properties on metadata

\* the row of the file classified last, if it has one
RowsOfLast == {k \in Rows : ledger[k].path = PathOf(loc.file)}

\* the software tag names, case-insensitively and as a substring, a tool
\* known to corrupt the capture tag
NamesKnownBadTool(software) ==
    CASE software = "Picasa 3.9" -> TRUE
      [] software = "f-spot" -> TRUE
      [] software = "f-spot version 0.8.2" -> TRUE
      [] OTHER -> FALSE

\* ------------------------------------------------------------------------
\* C11: every image file whose classification raises an error ends with
\* exactly one ledger entry for its path, with status FAILED and a non-empty
\* error message.
C11_ErrorsRecorded ==
    (loc.file # 0 /\ loc.raised # None) =>
        /\ Cardinality(RowsOfLast) = 1
        /\ \A k \in RowsOfLast :
              ledger[k].status = "FAILED" /\ ledger[k].error \notin {None, ""}

\* ------------------------------------------------------------------------
\* C12: the fingerprint depends only on the content: a file byte-identical
\* to a file recorded at another path, FAILED files included, gets the same
\* fingerprint and so is recognized as already seen.
C12_FingerprintOfContent ==
    (loc.file # 0 /\ loc.digest # None) =>
        \A k \in Rows :
            ( /\ ledger[k].path # PathOf(loc.file)
              /\ ledger[k].status # "IGNORE"
              /\ Files[FileOfPath(ledger[k].path)].bytes = Files[loc.file].bytes )
            => ledger[k].hash = loc.digest

\* ------------------------------------------------------------------------
\* C13: when the software tag names a known metadata-corrupting tool and
\* the digitized tag is present, the capture time is the digitized tag.
C13_SoftwareQuirk ==
    ( /\ loc.verdict = "READY"
      /\ NamesKnownBadTool(Files[loc.file].software)
      /\ Files[loc.file].dtd.kind = "datetime" )
    => \A k \in RowsOfLast : ledger[k].created = StrDatetime(Files[loc.file].dtd.t)

\* ------------------------------------------------------------------------
\* C14: when the software quirk does not apply and both
\* Exif.Photo.DateTimeOriginal and Exif.Image.DateTime are present with
\* different values, the capture time is the original-capture value.
C14_OriginalPreferred ==
    ( /\ loc.verdict = "READY"
      /\ ~NamesKnownBadTool(Files[loc.file].software)
      /\ Files[loc.file].dt.kind = "datetime"
      /\ Files[loc.file].dto.kind = "datetime"
      /\ Files[loc.file].dt.t # Files[loc.file].dto.t )
    => \A k \in RowsOfLast : ledger[k].created = StrDatetime(Files[loc.file].dto.t)

\* ------------------------------------------------------------------------
\* C15: a file takes the undated naming branch (epoch plus undated counter)
\* if and only if the tag its date resolves to is absent or not a
\* well-formed date/time; a file with a well-formed timestamp, the epoch
\* included, is named as dated and consumes no value of the counter.
C15_SyntheticTimestamp ==
    [][ (walked' # walked /\ loc'.verdict = "READY") =>
          LET i == loc'.file
              ext == Lower(Files[i].ext)
              tag == ResolveTag(i)
              name == FileName(loc'.dstdir)
          IN  IF tag.kind = "datetime"
              THEN /\ ~loc'.undated
                   /\ undated_counter' = undated_counter
                   /\ name \in {Strftime(tag.t) \o ext}
                          \cup {Strftime(tag.t) \o "." \o ToString(n) \o ext : n \in 1 .. MaxFiles}
              ELSE /\ loc'.undated
                   /\ undated_counter' = undated_counter + 1
                   /\ name = Strftime(Epoch) \o "-" \o ToString(undated_counter') \o ext
      ]_vars

\* an undated file, then a real photo dated at the epoch: the photo is named
\* as the second file of that second and the counter stays at 1
C15_Witness ==
    /\ Len(ledger) = 2
    /\ undated_counter = 1
    /\ FileName(ledger[1].destination) = "1970_01_01-00_00_00-1.jpg"
    /\ Files[loc.file].dto = DT(Epoch)
    /\ ~loc.undated
    /\ FileName(ledger[2].destination) = "1970_01_01-00_00_00.1.jpg"

\* ------------------------------------------------------------------------
\* C16: the classification pass removes a source file only when
\* delete-duplicates is on and the fingerprint of that file was found in the
\* ledger; with delete-duplicates off it removes nothing.
C16_RemovalGated ==
    [][ pc = "classify" =>
          /\ present' \subseteq present
          /\ ~ns.delete_duplicates => present' = present
          /\ present' # present =>
                /\ ns.delete_duplicates
                /\ walked' # walked
                /\ present \ present' = {Head(todo)}
                /\ SelectHash(ledger, Fingerprint(Head(todo))) # {}
                /\ loc'.verdict = "DUPLICATE" /\ loc'.seen
      ]_vars

\* the copy of a READY file has just been removed; the READY file is there
C16_Witness ==
    /\ ns.delete_duplicates
    /\ pc = "classify"
    /\ loc.verdict = "DUPLICATE"
    /\ loc.file \notin present
    /\ \E k \in ReadyRows :
          /\ ledger[k].hash = loc.digest
          /\ ledger[k].path # PathOf(loc.file)
          /\ FileOfPath(ledger[k].path) \in present

\* ------------------------------------------------------------------------
\* C17: the apply pass makes exactly one move, copy or symlink for each
\* READY entry, with the source and destination of the entry, none for any
\* other entry, and of the same kind for every entry of the run.  (The call
\* that raised counts as the action of its entry.)
C17_OneActionPerReady ==
    pc \in {"done", "aborted"} =>
        LET ready == SelectReady(ledger)
            failed == IF pc = "aborted" THEN Len(ready) - Len(cursor) ELSE 0
            Calls(row) == {n \in 1 .. Len(fsops) :
                              fsops[n].source = row.path /\ fsops[n].target = row.destination}
        IN  /\ \A r \in 1 .. Len(ready) : r # failed => Cardinality(Calls(ready[r])) = 1
            /\ \A n \in 1 .. Len(fsops) :
                  /\ fsops[n].op = ApplyOp
                  /\ \E r \in 1 .. Len(ready) : n \in Calls(ready[r])

\* ------------------------------------------------------------------------
\* C18: ledger entries are append-only and terminal: no field of an inserted
\* entry ever changes and no entry is ever removed.
C18_AppendOnly ==
    [][ /\ Len(ledger') >= Len(ledger)
        /\ \A k \in 1 .. Len(ledger) : ledger'[k] = ledger[k] ]_vars

\* a ledger of three entries of three statuses at the end of the run
C18_Witness ==
    /\ pc = "done"
    /\ Len(ledger) = 3
    /\ {ledger[k].status : k \in Rows} = {"IGNORE", "FAILED", "READY"}

\* ------------------------------------------------------------------------
\* C19, as claimed: an entry has a non-null error only if its status is
\* FAILED.
C19_ErrorOnlyWhenFailed ==
    \A k \in Rows : ledger[k].error # None => ledger[k].status = "FAILED"

\* C19, amended: an entry has a non-null error only if its status is FAILED
\* or IGNORE; READY and DUPLICATE entries have a null error and an IGNORE
\* entry carries the text "non image file".
C19_ErrorOnlyWhenFailedOrIgnored ==
    \A k \in Rows :
        /\ ledger[k].error # None => ledger[k].status \in {"FAILED", "IGNORE"}
        /\ ledger[k].status \in {"READY", "DUPLICATE"} => ledger[k].error = None
        /\ ledger[k].status = "IGNORE" => ledger[k].error = "non image file"

\* an ignored file, a failed file and a READY file side by side
C19_Witness ==
    /\ \E k \in Rows : ledger[k].status = "IGNORE" /\ ledger[k].error = "non image file"
    /\ \E k \in Rows : ledger[k].status = "FAILED" /\ ledger[k].error # None
    /\ \E k \in Rows : ledger[k].status = "READY" /\ ledger[k].error = None

RECURSIVE RealPath(_)
RealPath(path) == IF IsLink(path) THEN RealPath(ReadLink(path)) ELSE path

\* the enumeration yields no path twice
EachPathOnce ==
    LET e == walked \o todo
    IN  \A m, n \in 1 .. Len(e) : e[m] = e[n] => m = n

\* the apply pass is about to visit its first row
ApplyBegins == pc = "apply" /\ fsops = <<>> /\ cursor = SelectReady(ledger)

\* C22: in link mode the symbolic link created for a READY row points at a
\* file that is not itself a symbolic link: when the row's source is the
\* first of a chain of links, the link points at the file the chain ends in.
C22_LinkPointsAtRealFile ==
    \A n \in 1 .. Len(fsops) :
        fsops[n].op = "symlink" =>
            /\ ~IsLink(fsops[n].source)
            /\ \A k \in ReadyRows :
                  ledger[k].destination = fsops[n].target =>
                      fsops[n].source = RealPath(ledger[k].path)

\* C25: with delete-duplicates enabled and no path enumerated twice, the
\* source of every READY row can still be opened during classification and
\* when the apply pass begins.
C25_ReadySourcesSurvive ==
    (ns.delete_duplicates /\ EachPathOnce /\ (pc = "classify" \/ ApplyBegins))
        => \A k \in ReadyRows : CanOpen(FileOfPath(ledger[k].path), present)

\* ------------------------------------------------------------------------
\* The table as collision guard

\* the row offered next has the destination of a READY row of the table
\* whose fingerprint is another
DestinationCollision ==
    /\ inserts # <<>>
    /\ Head(inserts).status = "READY"
    /\ \E k \in ReadyRows :
          /\ ledger[k].destination = Head(inserts).destination
          /\ ledger[k].hash # Head(inserts).hash

WalkOver == stack = <<>>

\* the entry that makes directory dir, for a directory below Top
EntryOfDir(dir) == CHOOSE n \in 1 .. Len(Entries) : Join(Entries[n].dir, Entries[n].name) = dir

DirsOfTree == {Top} \cup {Entries[n].dir : n \in 1 .. Len(Entries)}

\* depth of a directory, Top at depth 0
RECURSIVE DepthOf(_)
DepthOf(dir) == IF dir = Top THEN 0 ELSE 1 + DepthOf(Entries[EntryOfDir(dir)].dir)

\* the way from Top to dir goes through a symbolically linked directory
RECURSIVE CrossesLink(_)
CrossesLink(dir) ==
    /\ dir # Top
    /\ \/ Entries[EntryOfDir(dir)].kind = "dirlink"
       \/ CrossesLink(Entries[EntryOfDir(dir)].dir)

YieldedSet == {yielded[n] : n \in 1 .. Len(yielded)}

FilesOfDirs(ds) ==
    {<<Entries[n].dir, Entries[n].name>> :
        n \in {k \in 1 .. Len(Entries) : Entries[k].kind = "file" /\ Entries[k].dir \in ds}}

WithinDepth(dir) == tw.max_depth = NoDepth \/ DepthOf(dir) <= tw.max_depth[1]

\* a walk with an effective depth of at least one
GoesBelowTop == ns.depth = NoDepth \/ ns.depth[1] >= 1

\* C23: when the walk is over, files under the symbolically linked directory
\* (within the depth bound) have been yielded if and only if the
\* follow-links option was given; without the option none is ever yielded.
C23_SymlinkPolicy ==
    /\ ~ns.follow_links => \A p \in YieldedSet : ~CrossesLink(p[1])
    /\ (WalkOver /\ GoesBelowTop)
          => (ns.follow_links <=> <<"top/lnk", "e.jpg">> \in YieldedSet)

\* C24: the walk yields no pair twice and only files of directories within
\* max_depth that are reached without crossing an unfollowed symbolic link;
\* when it is over it has yielded every such file; it is over eventually.
C24_DepthBound ==
    LET reached == {d \in DirsOfTree :
                        WithinDepth(d) /\ (CrossesLink(d) => tw.follow_links)}
    IN  /\ [](/\ \A m, n \in 1 .. Len(yielded) : yielded[m] = yielded[n] => m = n
              /\ YieldedSet \subseteq FilesOfDirs(reached)
              /\ WalkOver => YieldedSet = FilesOfDirs(reached))
        /\ <>WalkOver

\* a walk bounded at depth 2 is over, having yielded the files of the three
\* levels and not the one at depth 3
C24_Witness ==
    /\ WalkOver
    /\ tw.max_depth = Depth(2)
    /\ <<"top/sub/deep", "c.jpg">> \in YieldedSet
    /\ <<"top/sub/deep/deeper", "d.jpg">> \notin YieldedSet

\* ------------------------------------------------------------------------
\* sqlalbumiser.py: files without a date tag

\* the file of the last iteration is an image that was read, is no
\* duplicate, and has neither Exif.Image.DateTime nor
\* Exif.Photo.DateTimeOriginal
LastIsTagless ==
    /\ loc.file # 0
    /\ isPhoto(loc.file)
    /\ Files[loc.file].meta = "ok"
    /\ Files[loc.file].readable
    /\ ~loc.seen
    /\ Files[loc.file].dt = Absent
    /\ Files[loc.file].dto = Absent

\* C26: in sqlalbumiser.py an image that is no duplicate and has neither of
\* the two date tags gets a READY row whose destination is under
\* 1970/1970-01/1970-01-01 and carries the undated counter, whatever was
\* classified before it.
C26_TaglessIsEpoch ==
    LastIsTagless =>
        LET dst == Append(DstDir(Epoch),
                          Strftime(Epoch) \o "-" \o ToString(undated_counter)
                              \o Lower(Files[loc.file].ext))
        IN  /\ loc.verdict = "READY"
            /\ loc.undated
            /\ \E k \in ReadyRows :
                  /\ ledger[k].path = PathOf(loc.file)
                  /\ ledger[k].destination = dst

====
